---- MODULE Spec2Model ----
(***************************************************************************)
(* Model of dynamic_graph.sot.dynamics.humanoid_robot: the classes         *)
(* AbstractHumanoidRobot and HumanoidRobot, their two model loaders and    *)
(* initializeRobot.                                                        *)
(*                                                                         *)
(* Python strings that the code splits, joins or concatenates are          *)
(* sequences of one-character strings.  An optional Python value is a      *)
(* sequence of length at most one: None is <<>> and a present value v is   *)
(* <<v>>.  A Python object created by a robot's code lives in that robot's *)
(* heap and is referred to by its index there.                             *)
(***************************************************************************)
EXTENDS Integers, Sequences, FiniteSets, TLC

VARIABLES
    robot,          \* the robot objects: their attributes and the entities they created
    classFeatures,  \* AbstractHumanoidRobot.features, the class-level dictionary
    classTasks,     \* AbstractHumanoidRobot.tasks, the class-level dictionary
    lastCall,       \* the last call made: on which robot, what it raised or returned
    log,            \* the calls the last run of initializeRobot made on its collaborators
    initRuns        \* number of runs of initializeRobot so far

vars == <<robot, classFeatures, classTasks, lastCall, log, initRuns>>

----------------------------------------------------------------------------
(* Bounds of the model *)

\* largest configuration size a descriptor parses to
MaxDim == 1

\* number of runs of initializeRobot a behaviour may hold
MaxInit == 2

\* the robot objects a behaviour may construct, and the name each is given
RobotIds == {"A", "B"}

RobotName == [A |-> <<"r", "1">>, B |-> <<"r", "2">>]

\* entries a subclass may put in its own halfSitting (0 stands for 0.0)
Coordinates == {0, 1}

----------------------------------------------------------------------------
(* Python values *)

None == <<>>

Some(v) == <<v>>

\* n*(0.,)
Zeros(n) == [i \in 1..n |-> 0]

Lowercase == <<"a", "b", "c", "d", "e", "f", "g", "h", "i", "j", "k", "l", "m",
               "n", "o", "p", "q", "r", "s", "t", "u", "v", "w", "x", "y", "z">>

Uppercase == <<"A", "B", "C", "D", "E", "F", "G", "H", "I", "J", "K", "L", "M",
               "N", "O", "P", "Q", "R", "S", "T", "U", "V", "W", "X", "Y", "Z">>

\* str.upper() and str.lower() on one character
Upper(c) ==
    IF \E i \in 1..Len(Lowercase) : Lowercase[i] = c
    THEN Uppercase[CHOOSE i \in 1..Len(Lowercase) : Lowercase[i] = c]
    ELSE c

Lower(c) ==
    IF \E i \in 1..Len(Uppercase) : Uppercase[i] = c
    THEN Lowercase[CHOOSE i \in 1..Len(Uppercase) : Uppercase[i] = c]
    ELSE c

\* str.capitalize(): first character upper-cased, the others lower-cased
Capitalize(w) ==
    [i \in 1..Len(w) |-> IF i = 1 THEN Upper(w[i]) ELSE Lower(w[i])]

\* str.split(sep) for a one-character separator: the list of the pieces
RECURSIVE SplitFrom(_, _, _, _)
SplitFrom(s, sep, i, cur) ==
    IF i > Len(s) THEN <<cur>>
    ELSE IF s[i] = sep THEN <<cur>> \o SplitFrom(s, sep, i + 1, <<>>)
    ELSE SplitFrom(s, sep, i + 1, Append(cur, s[i]))

Split(s, sep) == SplitFrom(s, sep, 1, <<>>)

\* the names bound at module level by the imports and definitions of
\* humanoid_robot.py
ModuleGlobals ==
    { "SE3", "R3", "SO3", "FeaturePosition", "RobotSimu",
      "FeaturePoint6dRelative", "FeatureGeneric", "FeatureJointLimits",
      "Task", "Constraint", "GainAdaptive", "SOT", "Parser",
      "AngleEstimator", "plug", "I3", "I4",
      "AbstractHumanoidRobot", "HumanoidRobot" }

\* the builtin names the module's code refers to or could refer to
Builtins ==
    { "object", "dict", "reduce", "range", "setattr",
      "RuntimeError", "NameError", "TypeError" }

\* Python name lookup in a method of the module: globals, then builtins
Resolves(n) == n \in ModuleGlobals \cup Builtins

NameErrorOf(n) == [type |-> "NameError", name |-> n, msg |-> ""]

\* raise n(msg): the exception that propagates
Raise(n, msg) ==
    IF Resolves(n) THEN [type |-> n, name |-> "", msg |-> msg]
    ELSE NameErrorOf(n)

----------------------------------------------------------------------------
(* Names *)

OperationalPoints ==
    << <<"l", "e", "f", "t", "-", "w", "r", "i", "s", "t">>,
       <<"r", "i", "g", "h", "t", "-", "w", "r", "i", "s", "t">>,
       <<"l", "e", "f", "t", "-", "a", "n", "k", "l", "e">>,
       <<"r", "i", "g", "h", "t", "-", "a", "n", "k", "l", "e">> >>

OpSet == { OperationalPoints[i] : i \in 1..Len(OperationalPoints) }

ComSignal == <<"c", "o", "m">>

JcomSignal == <<"J", "c", "o", "m">>

\* 'J' + op
JacobianSignal(op) == <<"J">> \o op

DeviceSuffix == <<".", "d", "e", "v", "i", "c", "e">>

DynamicsSuffix == <<".", "d", "y", "n", "a", "m", "i", "c", "s">>

FeatureComSuffix == <<".", "f", "e", "a", "t", "u", "r", "e", ".", "c", "o", "m">>

FeatureComDesSuffix ==
    <<".", "f", "e", "a", "t", "u", "r", "e", ".", "r", "e", "f", ".", "c", "o", "m">>

TaskComSuffix == <<".", "t", "a", "s", "k", ".", "c", "o", "m">>

FeaturePrefix == <<".", "f", "e", "a", "t", "u", "r", "e", ".">>

TaskPrefix == <<".", "t", "a", "s", "k", ".">>

\* the attribute name under which the feature of an operational point is
\* exposed: w[0] followed by the capitalized other pieces
RECURSIVE JoinCapitalized(_, _)
JoinCapitalized(w, i) ==
    IF i > Len(w) THEN <<>> ELSE Capitalize(w[i]) \o JoinCapitalized(w, i + 1)

\* faulty variant: the pieces are joined without capitalizing
MemberNameJoined(op) ==
    LET w == Split(op, "-") IN w[1] \o w[2]

MemberName(op) ==
    LET w == Split(op, "-") IN w[1] \o JoinCapitalized(w, 2)

----------------------------------------------------------------------------
(* The Model Handle (the Dynamic entity the parser produces) *)

FlagKeys ==
    { "ComputeVelocity", "ComputeCoM", "ComputeAccelerationCoM",
      "ComputeMomentum", "ComputeZMP", "ComputeBackwardDynamics" }

\* what a valid mesh descriptor parses to: the configuration size and the
\* flag values the parser leaves on the model
Descriptors == [dim : 0..MaxDim, flags : [FlagKeys -> BOOLEAN]]

\* the descriptors whose parser leaves every flag off
PlainDescriptors == { d \in Descriptors : \A k \in FlagKeys : ~d.flags[k] }

\* Parser(name, filename).parse()
Parse(name, desc) ==
    [ name         |-> name,
      dimension    |-> desc.dim,
      flags        |-> desc.flags,
      position     |-> None,
      velocity     |-> None,
      acceleration |-> None,
      signals      |-> [s \in {ComSignal, JcomSignal} |-> None],
      opCalls      |-> [op \in OpSet |-> 0] ]

\* model.setProperty(key, value), value being 'true' or 'false'
SetProperty(m, key, value) == [m EXCEPT !.flags[key] = (value = "true")]

\* model.getDimension()
GetDimension(m) == m.dimension

\* model.createOpPoint(op, op): the position signal op and the Jacobian
\* signal 'J' + op exist afterwards; signals that exist already are kept
CreateOpPoint(m, op) ==
    LET new == {op, JacobianSignal(op)} \ DOMAIN m.signals IN
    [m EXCEPT !.signals = [s \in DOMAIN m.signals \cup new |->
                              IF s \in DOMAIN m.signals THEN m.signals[s] ELSE None],
              !.opCalls[op] = @ + 1]

\* signal.recompute(t): the value the signal takes at the model's present
\* position and at time t
Recompute(m, s, t) ==
    IF s \in DOMAIN m.signals
    THEN [m EXCEPT !.signals[s] = Some([sig |-> s, q |-> m.position, t |-> t])]
    ELSE m

\* signal.value
ValueOf(m, s) == IF s \in DOMAIN m.signals THEN m.signals[s] ELSE None

----------------------------------------------------------------------------
(* The two loaders *)

\* faulty variant: the ZMP flag is left as the parser set it
LoadModelFromKxmlNoZmp(name, desc) ==
    LET m0 == Parse(name, desc)
        m1 == SetProperty(m0, "ComputeVelocity", "true")
        m2 == SetProperty(m1, "ComputeCoM", "true")
        m3 == SetProperty(m2, "ComputeAccelerationCoM", "false")
        m4 == SetProperty(m3, "ComputeMomentum", "false")
        m6 == SetProperty(m4, "ComputeBackwardDynamics", "false")
    IN [raised |-> None, ret |-> Some(m6)]

LoadModelFromKxml(name, desc) ==
    LET m0 == Parse(name, desc)
        m1 == SetProperty(m0, "ComputeVelocity", "true")
        m2 == SetProperty(m1, "ComputeCoM", "true")
        m3 == SetProperty(m2, "ComputeAccelerationCoM", "false")
        m4 == SetProperty(m3, "ComputeMomentum", "false")
        m5 == SetProperty(m4, "ComputeZMP", "true")
        m6 == SetProperty(m5, "ComputeBackwardDynamics", "false")
    IN [raised |-> None, ret |-> Some(m6)]

\* DynamicHrp2 is looked up when the method runs; the method ends with a
\* bare return
LoadModelFromJrlDynamics(name, desc) ==
    IF ~Resolves("DynamicHrp2")
    THEN [raised |-> Some(NameErrorOf("DynamicHrp2")), ret |-> None]
    ELSE [raised |-> None, ret |-> None]

----------------------------------------------------------------------------
(* Robot objects *)

EmptyDict == [k \in {} |-> 0]

\* d[k] = v
DictSet(d, k, v) == [x \in DOMAIN d \cup {k} |-> IF x = k THEN v ELSE d[x]]

\* a slot of RobotIds not constructed yet; once constructed, the attributes
\* hold the class-level defaults until the instance sets them.  features and
\* tasks are None while the instance has no attribute of its own, in which
\* case a lookup finds the class-level dictionary.
NoRobot ==
    [ kind          |-> "none",
      id            |-> "",
      name          |-> None,
      dynamic       |-> None,
      device        |-> None,
      dimension     |-> None,
      halfSitting   |-> None,
      featureCom    |-> None,
      featureComDes |-> None,
      comTask       |-> None,
      features      |-> None,
      tasks         |-> None,
      attrs         |-> EmptyDict,
      heap          |-> <<>> ]

\* AbstractHumanoidRobot.__init__(self, name), self being the object id
AbstractInit(id, kind, name) ==
    [NoRobot EXCEPT !.kind = kind,
                    !.id = id,
                    !.name = Some(name),
                    !.halfSitting = IF kind = "Humanoid" THEN Some(<<>>) ELSE None]

\* an entity of the graph created by a constructor call
Entity(cls, name) ==
    [ cls         |-> cls,
      name        |-> name,
      errorIN     |-> None,
      jacobianIN  |-> None,
      value       |-> None,
      selec       |-> None,
      sdes        |-> None,
      members     |-> <<>>,
      controlGain |-> None ]

\* control gains, in tenths: 1. and .2
ComGain == 10

OpGain == 2

\* faulty variant: the selection string '101'
ComSelecMiddle == <<"1", "0", "1">>

\* the selection string '011'
ComSelec == <<"0", "1", "1">>

\* one call made on a collaborator while initializeRobot runs
Ev(e, a) == [ev |-> e, arg |-> a]

\* The running call: self, the class-level dictionaries and the calls made
\* so far.
Frame(self, cf, ct) == [self |-> self, cf |-> cf, ct |-> ct, log |-> <<>>]

\* the object at index k of the heap of the running call's robot
Ref(f, k) == [owner |-> f.self.id, idx |-> k]

\* self.features and self.tasks as attribute lookup finds them
FeaturesOf(self, cf) == IF self.features = None THEN cf ELSE self.features[1]

TasksOf(self, ct) == IF self.tasks = None THEN ct ELSE self.tasks[1]

\* self.features[op] = ref
SetFeature(f, op, ref) ==
    IF f.self.features = None
    THEN [f EXCEPT !.cf = DictSet(@, op, ref)]
    ELSE [f EXCEPT !.self.features = Some(DictSet(@[1], op, ref))]

\* self.tasks[op] = ref
SetTask(f, op, ref) ==
    IF f.self.tasks = None
    THEN [f EXCEPT !.ct = DictSet(@, op, ref)]
    ELSE [f EXCEPT !.self.tasks = Some(DictSet(@[1], op, ref))]

----------------------------------------------------------------------------
(* initializeRobot, statement by statement *)

\* if not self.device: self.device = RobotSimu(self.name + '.device')
EnsureDevice(f) ==
    IF f.self.device = None
    THEN LET n == f.self.name[1] \o DeviceSuffix IN
         [f EXCEPT !.self.device = Some([name |-> n, state |-> None]),
                   !.log = Append(@, Ev("RobotSimu", n))]
    ELSE f

\* self.device.set(self.halfSitting); position, velocity and acceleration
\* of the model are assigned
SetHalfSitting(f) ==
    LET zeros == Zeros(f.self.dimension[1]) IN
    [f EXCEPT !.self.device = Some([@[1] EXCEPT !.state = f.self.halfSitting]),
              !.self.dynamic =
                  Some([@[1] EXCEPT !.position = f.self.halfSitting,
                                    !.velocity = Some(zeros),
                                    !.acceleration = Some(zeros)]),
              !.log = @ \o << Ev("device.set", f.self.device[1].name),
                              Ev("position.set", <<>>),
                              Ev("velocity.set", <<>>),
                              Ev("acceleration.set", <<>>) >>]

\* for op in self.OperationalPoints: model.createOpPoint(op, op)
RECURSIVE InitializeOpPointsFrom(_, _)
InitializeOpPointsFrom(f, i) ==
    IF i > Len(OperationalPoints) THEN f
    ELSE LET op == OperationalPoints[i] IN
         InitializeOpPointsFrom(
             [f EXCEPT !.self.dynamic = Some(CreateOpPoint(@[1], op)),
                       !.log = Append(@, Ev("createOpPoint", op))],
             i + 1)

InitializeOpPoints(f) == InitializeOpPointsFrom(f, 1)

\* faulty variant: the two recomputations are left out
RecomputeComSkipped(f) == f

\* self.dynamic.com.recompute(0); self.dynamic.Jcom.recompute(0)
RecomputeCom(f) ==
    [f EXCEPT !.self.dynamic =
                  Some(Recompute(Recompute(@[1], ComSignal, 0), JcomSignal, 0)),
              !.log = @ \o << Ev("recompute", ComSignal),
                              Ev("recompute", JcomSignal) >>]

\* featureCom, featureComDes and comTask
BuildComTask(f) ==
    LET n      == f.self.name[1]
        base   == Len(f.self.heap)
        dyn    == f.self.dynamic[1]
        cur    == [Entity("FeatureGeneric", n \o FeatureComSuffix) EXCEPT
                       !.errorIN = Some(ComSignal),
                       !.jacobianIN = Some(JcomSignal),
                       !.selec = Some(ComSelec),
                       !.sdes = Some(Ref(f, base + 2))]
        des    == [Entity("FeatureGeneric", n \o FeatureComDesSuffix) EXCEPT
                       !.value = ValueOf(dyn, ComSignal)]
        task   == [Entity("Task", n \o TaskComSuffix) EXCEPT
                       !.members = <<n \o FeatureComSuffix>>,
                       !.controlGain = Some(ComGain)]
    IN [f EXCEPT !.self.heap = @ \o <<cur, des, task>>,
                 !.self.featureCom = Some(Ref(f, base + 1)),
                 !.self.featureComDes = Some(Ref(f, base + 2)),
                 !.self.comTask = Some(Ref(f, base + 3)),
                 !.log = @ \o << Ev("FeatureGeneric", n \o FeatureComSuffix),
                                 Ev("plug", ComSignal),
                                 Ev("plug", JcomSignal),
                                 Ev("FeatureGeneric", n \o FeatureComDesSuffix),
                                 Ev("read", ComSignal),
                                 Ev("Task", n \o TaskComSuffix) >>]

\* faulty variant: the instance gets no dictionaries of its own
FreshDictsShared(f) == f

\* self.features = dict(); self.tasks = dict()
FreshDicts(f) ==
    [f EXCEPT !.self.features = Some(EmptyDict),
              !.self.tasks = Some(EmptyDict)]

\* the body of the loop over the operational points
BuildOpTask(f, op) ==
    LET n       == f.self.name[1]
        base    == Len(f.self.heap)
        dyn     == Recompute(Recompute(f.self.dynamic[1], op, 0),
                             JacobianSignal(op), 0)
        feature == [Entity("FeaturePosition", n \o FeaturePrefix \o op) EXCEPT
                        !.errorIN = Some(op),
                        !.jacobianIN = Some(JacobianSignal(op)),
                        !.value = ValueOf(dyn, op)]
        task    == [Entity("Task", n \o TaskPrefix \o op) EXCEPT
                        !.members = <<n \o FeaturePrefix \o op>>,
                        !.controlGain = Some(OpGain)]
        f1      == [f EXCEPT !.self.dynamic = Some(dyn),
                             !.self.heap = @ \o <<feature, task>>,
                             !.log = @ \o << Ev("recompute", op),
                                             Ev("recompute", JacobianSignal(op)),
                                             Ev("read", op),
                                             Ev("FeaturePosition", n \o FeaturePrefix \o op),
                                             Ev("Task", n \o TaskPrefix \o op) >>]
        f2      == SetTask(SetFeature(f1, op, Ref(f, base + 1)), op, Ref(f, base + 2))
    IN [f2 EXCEPT !.self.attrs =
                      DictSet(@, MemberName(op), FeaturesOf(f2.self, f2.cf)[op])]

RECURSIVE BuildOpTasksFrom(_, _)
BuildOpTasksFrom(f, i) ==
    IF i > Len(OperationalPoints) THEN f
    ELSE BuildOpTasksFrom(BuildOpTask(f, OperationalPoints[i]), i + 1)

\* the two fresh dictionaries, then the loop over self.OperationalPoints
BuildOpTasks(f) == BuildOpTasksFrom(FreshDicts(f), 1)

\* faulty variant: the centre of mass is recomputed before the state is set
InitializeRobotBodyReordered(f) ==
    BuildOpTasks(BuildComTask(InitializeOpPoints(
        SetHalfSitting(RecomputeCom(EnsureDevice(f))))))

\* initializeRobot once the model is known to be present
InitializeRobotBody(f) ==
    BuildOpTasks(BuildComTask(RecomputeCom(InitializeOpPoints(
        SetHalfSitting(EnsureDevice(f))))))

NotInitializedMessage == "robots models have to be initialized first"

\* initializeRobot: the exception it raises, if any, and the frame it leaves
InitializeRobot(f) ==
    IF f.self.dynamic = None
    THEN [raised |-> Some(Raise("RunTimeError", NotInitializedMessage)),
          frame  |-> f]
    ELSE [raised |-> None, frame |-> InitializeRobotBody(f)]

----------------------------------------------------------------------------
(* Constructors and callers *)

\* HumanoidRobot.__init__(self, name, filename), the file parsing to desc
HumanoidInit(id, name, desc, cf, ct) ==
    LET self0 == AbstractInit(id, "Humanoid", name)
        ld    == LoadModelFromKxml(name \o DynamicsSuffix, desc)
        dim   == GetDimension(ld.ret[1])
        self1 == [self0 EXCEPT !.dynamic = ld.ret,
                               !.dimension = Some(dim),
                               !.halfSitting = Some(Zeros(dim))]
        res   == InitializeRobot(Frame(self1, cf, ct))
    IN [raised |-> res.raised, ret |-> ld.ret, frame |-> res.frame]

\* The set-up a subclass of AbstractHumanoidRobot does, as HumanoidRobot
\* does it, with a halfSitting of its own:
\*   self.dynamic = self.loadModelFromKxml(self.name + '.dynamics', filename)
\*   self.dimension = self.dynamic.getDimension()
\*   self.halfSitting = h
SubclassSetup(self, desc, h) ==
    LET ld == LoadModelFromKxml(self.name[1] \o DynamicsSuffix, desc) IN
    [raised |-> ld.raised,
     ret    |-> ld.ret,
     self   |-> [self EXCEPT !.dynamic = ld.ret,
                             !.dimension = Some(GetDimension(ld.ret[1])),
                             !.halfSitting = Some(h)]]

\* self.dynamic = self.loadModelFromJrlDynamics(...): nothing is assigned
\* when the call raises
SubclassLoadJrl(self, desc) ==
    LET ld == LoadModelFromJrlDynamics(self.name[1] \o DynamicsSuffix, desc) IN
    [raised |-> ld.raised,
     ret    |-> ld.ret,
     self   |-> IF ld.raised = None THEN [self EXCEPT !.dynamic = ld.ret] ELSE self]

\* the configurations a subclass may supply
HalfSittings == UNION { [1..n -> Coordinates] : n \in 0..MaxDim }

Call(op, r, raised, ret, arg) ==
    [op |-> op, robot |-> r, raised |-> raised, ret |-> ret, arg |-> arg]

----------------------------------------------------------------------------
(* The state machine *)

Init ==
    /\ robot = [r \in RobotIds |-> NoRobot]
    /\ classFeatures = EmptyDict
    /\ classTasks = EmptyDict
    /\ lastCall = Call("none", "", None, None, None)
    /\ log = <<>>
    /\ initRuns = 0

\* an instance of a subclass of AbstractHumanoidRobot is constructed
NewAbstract(r) ==
    /\ robot[r].kind = "none"
    /\ robot' = [robot EXCEPT ![r] = AbstractInit(r, "Abstract", RobotName[r])]
    /\ lastCall' = Call("AbstractHumanoidRobot", r, None, None, None)
    /\ log' = <<>>
    /\ UNCHANGED <<classFeatures, classTasks, initRuns>>

\* HumanoidRobot(name, filename)
NewHumanoid(r, desc) ==
    /\ robot[r].kind = "none"
    /\ initRuns < MaxInit
    /\ \E res \in {HumanoidInit(r, RobotName[r], desc, classFeatures, classTasks)} :
       /\ robot' = [robot EXCEPT ![r] = res.frame.self]
       /\ classFeatures' = res.frame.cf
       /\ classTasks' = res.frame.ct
       /\ log' = res.frame.log
       /\ lastCall' = Call("HumanoidRobot", r, res.raised, res.ret, Some(desc))
    /\ initRuns' = initRuns + 1

\* a subclass instance loads its model from a kxml file and sets its
\* dimension and halfSitting
ConfigureSubclass(r, desc, h) ==
    /\ robot[r].kind = "Abstract"
    /\ robot[r].dynamic = None
    /\ \E res \in {SubclassSetup(robot[r], desc, h)} :
       /\ robot' = [robot EXCEPT ![r] = res.self]
       /\ lastCall' = Call("loadModelFromKxml", r, res.raised, res.ret, Some(desc))
    /\ log' = <<>>
    /\ UNCHANGED <<classFeatures, classTasks, initRuns>>

\* a subclass instance loads its model with the jrl-dynamics loader
LoadJrl(r, desc) ==
    /\ robot[r].kind = "Abstract"
    /\ \E res \in {SubclassLoadJrl(robot[r], desc)} :
       /\ robot' = [robot EXCEPT ![r] = res.self]
       /\ lastCall' = Call("loadModelFromJrlDynamics", r, res.raised, res.ret, None)
    /\ log' = <<>>
    /\ UNCHANGED <<classFeatures, classTasks, initRuns>>

\* robot.initializeRobot()
CallInitializeRobot(r) ==
    /\ robot[r].kind # "none"
    /\ initRuns < MaxInit
    /\ \E res \in {InitializeRobot(Frame(robot[r], classFeatures, classTasks))} :
       /\ robot' = [robot EXCEPT ![r] = res.frame.self]
       /\ classFeatures' = res.frame.cf
       /\ classTasks' = res.frame.ct
       /\ log' = res.frame.log
       /\ lastCall' = Call("initializeRobot", r, res.raised, None, None)
       /\ initRuns' = IF res.raised = None THEN initRuns + 1 ELSE initRuns

Next ==
    \/ \E r \in RobotIds : NewAbstract(r)
    \/ \E r \in RobotIds, desc \in PlainDescriptors : NewHumanoid(r, desc)
    \/ \E r \in RobotIds, desc \in PlainDescriptors, h \in HalfSittings :
           ConfigureSubclass(r, desc, h)
    \/ \E r \in RobotIds, desc \in PlainDescriptors : LoadJrl(r, desc)
    \/ \E r \in RobotIds : CallInitializeRobot(r)

Spec == Init /\ [][Next]_vars

\* The loaders alone, on one robot, over every descriptor
NextLoad ==
    \/ NewAbstract("A")
    \/ \E desc \in Descriptors : NewHumanoid("A", desc)
    \/ \E desc \in Descriptors, h \in HalfSittings : ConfigureSubclass("A", desc, h)
    \/ \E desc \in Descriptors : LoadJrl("A", desc)

SpecLoad == Init /\ [][NextLoad]_vars

----------------------------------------------------------------------------
(* Properties *)

\* the object a reference designates
Deref(ref) == robot[ref.owner].heap[ref.idx]

\* initializeRobot has run to its end on robot r
Initialized(r) == robot[r].comTask # None

\* the last call was a run of initializeRobot, direct or from the
\* constructor of HumanoidRobot, that returned
RunCompleted ==
    /\ lastCall.op \in {"initializeRobot", "HumanoidRobot"}
    /\ lastCall.raised = None

\* the last call was initializeRobot on a robot without a model
InitWithoutModel ==
    /\ lastCall.op = "initializeRobot"
    /\ robot[lastCall.robot].dynamic = None

\* nothing of initializeRobot has happened to robot r
Untouched(r) ==
    /\ robot[r].device = None
    /\ robot[r].heap = <<>>
    /\ robot[r].featureCom = None
    /\ robot[r].featureComDes = None
    /\ robot[r].comTask = None
    /\ robot[r].features = None
    /\ robot[r].tasks = None
    /\ robot[r].attrs = EmptyDict

\* C1: initializeRobot on a robot whose model is absent fails with a
\* precondition error carrying the message "models must be initialized
\* first", and fails before any initialization step has run.
C1_PreconditionError ==
    InitWithoutModel =>
        /\ lastCall.raised # None
        /\ lastCall.raised[1].type \in {"PreconditionError", "RuntimeError"}
        /\ lastCall.raised[1].msg = "models must be initialized first"
        /\ log = <<>>
        /\ Untouched(lastCall.robot)

\* the names of the entities robot r has created, one per constructor call
CreatedNames(r) == [i \in 1..Len(robot[r].heap) |-> robot[r].heap[i].name]

\* C2: a second initializeRobot on the same robot is rejected or idempotent:
\* no operational point is declared twice on the model and no feature or
\* task is created twice under one name.
C2_NoDoubleRegistration ==
    \A r \in RobotIds :
        /\ robot[r].dynamic # None =>
               \A op \in OpSet : robot[r].dynamic[1].opCalls[op] <= 1
        /\ \A i, j \in 1..Len(robot[r].heap) :
               i # j => CreatedNames(r)[i] # CreatedNames(r)[j]

\* C3: each of the two loaders returns the parsed model, which the caller
\* stores as the robot's dynamic.
C3_LoadersReturnHandle ==
    lastCall.op \in {"loadModelFromKxml", "loadModelFromJrlDynamics"} =>
        /\ lastCall.raised = None
        /\ lastCall.ret # None
        /\ robot[lastCall.robot].dynamic = lastCall.ret

AllZero(v) == \A i \in 1..Len(v) : v[i] = 0

\* C4: once initializeRobot has completed on a robot, halfSitting, position,
\* velocity and acceleration all have dimension entries, position equals
\* halfSitting, and velocity and acceleration are zero.
C4_DimensionsAgree ==
    \A r \in RobotIds :
        Initialized(r) =>
            LET dyn == robot[r].dynamic[1]
                dim == robot[r].dimension[1]
            IN /\ Len(robot[r].halfSitting[1]) = dim
               /\ Len(dyn.position[1]) = dim
               /\ Len(dyn.velocity[1]) = dim
               /\ Len(dyn.acceleration[1]) = dim
               /\ dyn.position[1] = robot[r].halfSitting[1]
               /\ AllZero(dyn.velocity[1])
               /\ AllZero(dyn.acceleration[1])

\* the step of initializeRobot a logged call belongs to, told from the call
\* and from what it is about; n is the robot's name
StepOf(e, n) ==
    LET aboutCom == e.arg \in { ComSignal, JcomSignal, n \o FeatureComSuffix,
                                n \o FeatureComDesSuffix, n \o TaskComSuffix }
    IN CASE e.ev = "RobotSimu" -> 1
         [] e.ev \in {"device.set", "position.set", "velocity.set",
                      "acceleration.set"} -> 2
         [] e.ev = "createOpPoint" -> 3
         [] e.ev = "recompute" /\ aboutCom -> 4
         [] e.ev # "recompute" /\ aboutCom -> 5
         [] OTHER -> 6

\* position of the first occurrence of a call in the log, 0 if absent
FirstAt(e) ==
    IF \E i \in 1..Len(log) : log[i] = e
    THEN CHOOSE i \in 1..Len(log) : log[i] = e /\ \A j \in 1..(i - 1) : log[j] # e
    ELSE 0

\* e1 was logged, and before every occurrence of e2
Before(e1, i) == FirstAt(e1) # 0 /\ FirstAt(e1) < i

\* C5: within one run of initializeRobot the steps come in the order
\* device, state set to halfSitting, operational points declared, centre of
\* mass recomputed, centre-of-mass feature pair and task built, then per
\* operational point recomputation followed by its feature and task; no
\* signal is recomputed or read before the state is set, and none of an
\* operational point before that point is declared.
C5_StepOrder ==
    RunCompleted =>
        LET r == lastCall.robot
            n == robot[r].name[1]
            reads == { i \in 1..Len(log) : log[i].ev \in {"recompute", "read"} }
        IN /\ robot[r].device # None
           /\ \A i \in 1..Len(log) : log[i].ev = "RobotSimu" => i = 1
           /\ \A i, j \in 1..Len(log) :
                  i < j => StepOf(log[i], n) <= StepOf(log[j], n)
           /\ \A k \in 2..6 : \E i \in 1..Len(log) : StepOf(log[i], n) = k
           /\ \A i \in reads :
                  /\ Before(Ev("device.set", n \o DeviceSuffix), i)
                  /\ Before(Ev("position.set", <<>>), i)
                  /\ Before(Ev("velocity.set", <<>>), i)
                  /\ Before(Ev("acceleration.set", <<>>), i)
           /\ \A i \in reads : \A op \in OpSet :
                  log[i].arg \in {op, JacobianSignal(op)} =>
                      Before(Ev("createOpPoint", op), i)
           /\ LET cur == FirstAt(Ev("FeatureGeneric", n \o FeatureComSuffix))
                  des == FirstAt(Ev("FeatureGeneric", n \o FeatureComDesSuffix))
                  tsk == FirstAt(Ev("Task", n \o TaskComSuffix))
              IN /\ Before(Ev("recompute", ComSignal), cur)
                 /\ Before(Ev("recompute", JcomSignal), cur)
                 /\ cur < des /\ des < tsk
           /\ \A op \in OpSet :
                  LET fea == FirstAt(Ev("FeaturePosition", n \o FeaturePrefix \o op))
                      tsk == FirstAt(Ev("Task", n \o TaskPrefix \o op))
                  IN /\ Before(Ev("recompute", op), fea)
                     /\ Before(Ev("recompute", JacobianSignal(op)), fea)
                     /\ fea < tsk

\* a completed run that had to construct the device
C5_Witness ==
    /\ RunCompleted
    /\ Len(log) > 0
    /\ log[1].ev = "RobotSimu"
    /\ \E i \in 1..Len(log) : log[i] = Ev("read", OperationalPoints[4])

KxmlProfile ==
    [k \in FlagKeys |-> k \in {"ComputeVelocity", "ComputeCoM", "ComputeZMP"}]

\* C6: whatever flags the parser left on the model, the handle that
\* loadModelFromKxml returns has ComputeVelocity, ComputeCoM and ComputeZMP
\* on and ComputeAccelerationCoM, ComputeMomentum and
\* ComputeBackwardDynamics off.
C6_KxmlFlagProfile ==
    lastCall.op \in {"loadModelFromKxml", "HumanoidRobot"} =>
        /\ lastCall.ret # None
        /\ lastCall.ret[1].flags = KxmlProfile
        /\ robot[lastCall.robot].dynamic[1].flags = KxmlProfile

\* a load whose parser had left every flag at the opposite value
C6_Witness ==
    /\ lastCall.op = "loadModelFromKxml"
    /\ lastCall.arg # None
    /\ \A k \in FlagKeys : lastCall.arg[1].flags[k] = ~KxmlProfile[k]
    /\ lastCall.ret[1].flags = KxmlProfile

\* the attribute names the operational points are expected under
ExpectedMember ==
    [op \in OpSet |->
        CASE op = OperationalPoints[1] ->
                 <<"l", "e", "f", "t", "W", "r", "i", "s", "t">>
          [] op = OperationalPoints[2] ->
                 <<"r", "i", "g", "h", "t", "W", "r", "i", "s", "t">>
          [] op = OperationalPoints[3] ->
                 <<"l", "e", "f", "t", "A", "n", "k", "l", "e">>
          [] op = OperationalPoints[4] ->
                 <<"r", "i", "g", "h", "t", "A", "n", "k", "l", "e">>]

\* C7: after initializeRobot, for every operational point, features[name]
\* and tasks[name] exist, the task has gain 0.2 (2 tenths) and holds the feature named
\* for that point, and the camelCase attribute is the same object as
\* features[name].
C7_OperationalPointTasks ==
    \A r \in RobotIds :
        Initialized(r) =>
            LET fs == FeaturesOf(robot[r], classFeatures)
                ts == TasksOf(robot[r], classTasks)
                n  == robot[r].name[1]
            IN \A op \in OpSet :
                   /\ op \in DOMAIN fs
                   /\ op \in DOMAIN ts
                   /\ Deref(fs[op]).cls = "FeaturePosition"
                   /\ Deref(fs[op]).name = n \o FeaturePrefix \o op
                   /\ Deref(ts[op]).cls = "Task"
                   /\ Deref(ts[op]).controlGain = Some(2)
                   /\ Deref(ts[op]).members = <<Deref(fs[op]).name>>
                   /\ ExpectedMember[op] \in DOMAIN robot[r].attrs
                   /\ robot[r].attrs[ExpectedMember[op]] = fs[op]

\* an initialized robot exposing rightAnkle
C7_Witness ==
    \E r \in RobotIds :
        /\ Initialized(r)
        /\ <<"r", "i", "g", "h", "t", "A", "n", "k", "l", "e">> \in DOMAIN robot[r].attrs
        /\ Deref(robot[r].tasks[1][OperationalPoints[1]]).controlGain = Some(OpGain)

AtTimeZero(s, q) == Some([sig |-> s, q |-> q, t |-> 0])

\* C9: after initializeRobot the desired centre-of-mass feature holds the
\* value the com signal took when recomputed at time 0 in the halfSitting
\* configuration, and the feature of every operational point has as desired
\* value the value that point's position signal took when recomputed at
\* time 0; these are the signals' current values.
C9_HoldPosition ==
    \A r \in RobotIds :
        Initialized(r) =>
            LET dyn == robot[r].dynamic[1]
                fs  == FeaturesOf(robot[r], classFeatures)
            IN /\ Deref(robot[r].featureComDes[1]).value =
                      AtTimeZero(ComSignal, robot[r].halfSitting)
               /\ Deref(robot[r].featureComDes[1]).value = ValueOf(dyn, ComSignal)
               /\ \A op \in OpSet :
                      /\ Deref(fs[op]).value = AtTimeZero(op, robot[r].halfSitting)
                      /\ Deref(fs[op]).value = ValueOf(dyn, op)

\* an initialized robot whose halfSitting is not all zero
C9_Witness ==
    \E r \in RobotIds :
        /\ Initialized(r)
        /\ robot[r].halfSitting = Some(<<1>>)
        /\ Deref(robot[r].featureComDes[1]).value # None

\* the features and tasks mappings of robot r hold exactly the operational
\* points, each mapped to an entity robot r created for that point
OwnMappings(r) ==
    LET fs == FeaturesOf(robot[r], classFeatures)
        ts == TasksOf(robot[r], classTasks)
        n  == robot[r].name[1]
    IN /\ DOMAIN fs = OpSet
       /\ DOMAIN ts = OpSet
       /\ \A op \in OpSet :
              /\ fs[op].owner = r
              /\ ts[op].owner = r
              /\ Deref(fs[op]).name = n \o FeaturePrefix \o op
              /\ Deref(ts[op]).name = n \o TaskPrefix \o op

\* a call on another robot leaves the mappings of an initialized robot as
\* they were
OthersKeepMappings ==
    \A a \in RobotIds :
        (Initialized(a) /\ lastCall'.robot # a) =>
            /\ FeaturesOf(robot[a], classFeatures)' = FeaturesOf(robot[a], classFeatures)
            /\ TasksOf(robot[a], classTasks)' = TasksOf(robot[a], classTasks)

\* C10: the features and tasks mappings are per robot once initialized:
\* initializing one robot leaves those of every other robot unchanged, and
\* each initialized robot's mappings hold exactly the operational-point
\* names with that robot's own entities.
C10_PerInstanceMappings ==
    /\ [](\A r \in RobotIds : Initialized(r) => OwnMappings(r))
    /\ [][OthersKeepMappings]_vars

\* both robots initialized, B after A
C10_Witness ==
    /\ Initialized("A")
    /\ Initialized("B")
    /\ RunCompleted
    /\ lastCall.robot = "B"
    /\ classFeatures = EmptyDict

====
